---- MODULE Spec2Model ----
(***************************************************************************)
(* Model of app.py: the module-level startup (Google Sheets client, the    *)
(* spreadsheet binding, the two model artifacts) and the three handlers    *)
(* predecir_y_guardar_sheets, limpiar_datos and mostrar_datos_actuales     *)
(* acting on row 2 of the remote spreadsheet.                              *)
(*                                                                         *)
(* A cell is a record [k, v]: k is the kind of content, v a sequence of    *)
(* integers: <<>> for the empty string, <<n>> for a number, <<s>> for a    *)
(* timestamp of second s, the thousands groups for a currency string.     *)
(***************************************************************************)
EXTENDS Integers, Sequences, FiniteSets, TLC

VARIABLES
    pc,        \* "boot", "serving" (UI bound, handlers callable), "aborted"
    entorno,   \* what the process found at startup (credentials, files, API outcome)
    gc,        \* TRUE iff the client handle is not None
    sheet,     \* TRUE iff the worksheet handle is not None
    SHEET_URL, \* "No configurado" or the spreadsheet's URL
    modelo,    \* TRUE iff modelo is not None
    scaler,    \* TRUE iff scaler is not None
    remota,    \* the remote spreadsheet: [existe, filas]
    reloj,     \* datetime.now() of the latest handler call, in ticks
    ret,       \* what the latest handler call did and returned
    prev,      \* operation and message of the call before the latest
    escrita,   \* TRUE once an A2:L2 update of this process has been applied
    hilo,      \* concurrent requests: each one's position and pending row
    ultimo     \* the request whose update was applied last (0: none)

vars == <<pc, entorno, gc, sheet, SHEET_URL, modelo, scaler, remota, reloj,
          ret, prev, escrita, hilo, ultimo>>

\* ------------------------------------------------------------------ bounds
MaxValor == 2
MaxReloj == 3
TicksPorSegundo == 2

\* ------------------------------------------------------------------- cells
Vacia == [k |-> "vacia", v |-> << >>]
Num(n) == [k |-> "num", v |-> <<n>>]
Ts(s) == [k |-> "ts", v |-> s]
Moneda(g) == [k |-> "moneda", v |-> g]
Titulo(i) == [k |-> "titulo", v |-> <<i>>]

NCols == 12
Campos == 1..10

\* strftime("%Y-%m-%d %H:%M:%S"): the instant cut to whole seconds.
strftime(t) == <<t \div TicksPorSegundo>>

\* f"{x:,.0f}" of a non-negative value given in tenths: rounded to no
\* decimals (half to even), then split in groups of three digits.
Redondear(x10) ==
    LET q == x10 \div 10
        r == x10 % 10
    IN  IF r > 5 \/ (r = 5 /\ q % 2 = 1) THEN q + 1 ELSE q

RECURSIVE Miles(_)
Miles(n) == IF n < 1000 THEN <<n>> ELSE Append(Miles(n \div 1000), n % 1000)

FormatoMoneda(x10) == Miles(Redondear(x10))

\* ------------------------------------------------------ names and features
variables_modelo ==
    << "Interacciones", "Cantidad Asesores", "Promedio Interacciones",
       "% Cumplimiento Meta", "Participacion %", "Promedio Matriculas",
       "Crecimiento mensual %", "Crecimiento interanual %",
       "Interacciones por asesor", "Matriculas por asesor" >>

\* The handler's arguments, in the order of its signature, as a sequence e.
data_input(e) ==
    [n \in {variables_modelo[i] : i \in Campos} |->
        e[CHOOSE i \in Campos : variables_modelo[i] = n]]

\* all(valor == 0 for valor in data_input.values())
TodosCero(e) == LET d == data_input(e) IN \A n \in DOMAIN d : d[n] = 0

\* df_input[variables_modelo]: the columns picked by name, in the model's order.
Seleccion(e) == LET d == data_input(e) IN [i \in Campos |-> d[variables_modelo[i]]]

\* The fitted artifacts are opaque functions read from the .pkl files; these
\* stand for them: a linear transform per column, and a regressor whose log
\* prediction depends on every column and on its position.
scaler_transform(X) == [i \in Campos |-> 2 * X[i] + 1]

Expm1Tabla ==
    << 0, 17, 64, 191, 536, 1474, 4024, 10956, 29800, 81021, 220255,
       598731, 1627538, 4424124, 12026033 >>

RECURSIVE SumaPesada(_, _)
SumaPesada(X, i) == IF i = 0 THEN 0 ELSE i * X[i] + SumaPesada(X, i - 1)

modelo_predict(X) == SumaPesada(X, 10) % Len(Expm1Tabla)

\* np.expm1 of the log prediction, in tenths.
expm1(y) == Expm1Tabla[y + 1]

ingreso_estimado(e) == expm1(modelo_predict(scaler_transform(Seleccion(e))))

\* ------------------------------------------------------ the handler's inputs
Defaults == <<1000, 5, 200, 85, 75, 50, 10, 15, 200, 10>>

\* All zero, the form's defaults, a single non-zero field (the last one), and
\* ten different values, so that no two fields can be mixed up unnoticed.
Entradas ==
    {[i \in Campos |-> 0], Defaults}
        \cup {[i \in Campos |-> IF i = 10 THEN a ELSE 0] : a \in 1..MaxValor}
        \cup {[i \in Campos |-> a + i] : a \in 1..MaxValor}

\* -------------------------------------------------------- the spreadsheet API
headers == [i \in 1..NCols |-> Titulo(i)]

fila_datos == <<Vacia>> \o [i \in Campos |-> Num(0)] \o <<Vacia>>

Rellenar(filas, n) ==
    filas \o [i \in 1..(IF n > Len(filas) THEN n - Len(filas) ELSE 0) |-> << >>]

\* sheet.insert_row(values, index): the rows from index on move down by one.
insert_row(filas, values, index) ==
    LET base == Rellenar(filas, index - 1)
    IN  SubSeq(base, 1, index - 1) \o <<values>> \o SubSeq(base, index, Len(base))

\* An update of the range A2:K2 only.
update_A2L2_parcial(filas, values) ==
    LET base == Rellenar(filas, 2)
        resto == SubSeq(base[2], NCols, Len(base[2]))
    IN  [base EXCEPT ![2] = SubSeq(values, 1, NCols - 1) \o resto]

\* sheet.update('A2:L2', [values]): one call replaces the cells A2..L2; cells
\* of row 2 to the right of L keep their content.
update_A2L2(filas, values) ==
    LET base == Rellenar(filas, 2)
        resto == SubSeq(base[2], NCols + 1, Len(base[2]))
    IN  [base EXCEPT ![2] = values \o resto]

\* The text a cell is read back as.
Texto(c) == IF c.k = "num" THEN [k |-> "numtxt", v |-> c.v] ELSE c

RECURSIVE SinVaciasFinales(_)
SinVaciasFinales(s) ==
    IF s = << >> THEN s
    ELSE IF s[Len(s)] = Vacia THEN SinVaciasFinales(SubSeq(s, 1, Len(s) - 1))
    ELSE s

\* sheet.row_values(row): the row's values as text; the values API leaves out
\* the empty cells that trail the last value, and an absent row is [].
row_values(filas, row) ==
    IF row > Len(filas) THEN << >>
    ELSE SinVaciasFinales([i \in 1..Len(filas[row]) |-> Texto(filas[row][i])])

\* ------------------------------------------------------------------ startup
\* The environment variable: absent, not JSON, JSON without the fields of a
\* service account, or a service account document.
Credenciales == {"ausente", "json_invalido", "incompleta", "valida"}
Fallas == {"ninguna", "open", "create", "headers", "fila", "share"}
Archivos == {"ok", "falta", "corrupto"}

\* A setup that returns a client for any parseable JSON.
setup_google_sheets_sin_validar(cred) == cred \in {"valida", "incompleta"}

\* setup_google_sheets(): any exception is caught and None returned.
setup_google_sheets(cred) == cred = "valida"

SinHoja(rem) ==
    [abortado |-> FALSE, fallo |-> "ninguna", sheet |-> FALSE,
     url |-> "No configurado", remota |-> rem]

Aborta(punto, rem) ==
    [abortado |-> TRUE, fallo |-> punto, sheet |-> FALSE, url |-> "sin asignar",
     remota |-> rem]

Enlazada(rem) ==
    [abortado |-> FALSE, fallo |-> "ninguna", sheet |-> TRUE, url |-> "url",
     remota |-> rem]

\* The module-level `if gc:` block. falla is the API call that raises
\* something other than SpreadsheetNotFound, if any.
Enlace(g, falla, rem) ==
    IF ~g THEN SinHoja(rem)
    ELSE IF falla = "open" THEN Aborta("open", rem)
    ELSE IF rem.existe THEN Enlazada(rem)
    ELSE IF falla = "create" THEN Aborta("create", rem)
    ELSE LET r1 == [existe |-> TRUE, filas |-> << >>]
             r2 == [r1 EXCEPT !.filas = insert_row(r1.filas, headers, 1)]
             r3 == [r2 EXCEPT !.filas = insert_row(r2.filas, fila_datos, 2)]
         IN  IF falla = "headers" THEN Aborta("headers", r1)
             ELSE IF falla = "fila" THEN Aborta("fila", r2)
             ELSE IF falla = "share" THEN Aborta("share", r3)
             ELSE Enlazada(r3)

\* A load whose handler forgets the model already loaded.
Carga_parcial(am, as) ==
    IF am = "corrupto" THEN [abortado |-> TRUE, modelo |-> FALSE, scaler |-> FALSE]
    ELSE IF am = "falta" THEN [abortado |-> FALSE, modelo |-> FALSE, scaler |-> FALSE]
    ELSE IF as = "corrupto" THEN [abortado |-> TRUE, modelo |-> TRUE, scaler |-> FALSE]
    ELSE IF as = "falta" THEN [abortado |-> FALSE, modelo |-> TRUE, scaler |-> FALSE]
    ELSE [abortado |-> FALSE, modelo |-> TRUE, scaler |-> TRUE]

\* The module-level joblib.load block: only FileNotFoundError is caught.
Carga(am, as) ==
    IF am = "corrupto" THEN [abortado |-> TRUE, modelo |-> FALSE, scaler |-> FALSE]
    ELSE IF am = "falta" THEN [abortado |-> FALSE, modelo |-> FALSE, scaler |-> FALSE]
    ELSE IF as = "corrupto" THEN [abortado |-> TRUE, modelo |-> TRUE, scaler |-> FALSE]
    ELSE IF as = "falta" THEN [abortado |-> FALSE, modelo |-> FALSE, scaler |-> FALSE]
    ELSE [abortado |-> FALSE, modelo |-> TRUE, scaler |-> TRUE]

SinRet ==
    [op |-> "ninguna", msg |-> "", estado |-> "", entradas |-> << >>,
     ingreso |-> << >>, timestamp |-> << >>, llamadas |-> 0, cambio |-> FALSE,
     valores |-> << >>, maxIdx |-> -1]

SinPrev == [op |-> "ninguna", msg |-> ""]

SinHilo == [pc |-> "idle", op |-> "ninguna", fila |-> << >>, msg |-> "", estado |-> ""]

Hilos == {1, 2}

\* Rows an existing spreadsheet of that name can hold: none, only the header,
\* a hand-filled short row, the row a creation, a Clear or a Predict left, and
\* a row with a note to the right of column L.
FilasExistentes ==
    { << >>,
      <<headers>>,
      <<headers, <<Ts(<<0>>), Num(1), Num(2)>> >>,
      <<headers, fila_datos>>,
      <<headers, <<Ts(<<0>>)>> \o [i \in Campos |-> Num(0)] \o <<Vacia>> >>,
      <<headers, <<Ts(<<0>>)>> \o [i \in Campos |-> Num(Defaults[i])]
                    \o <<Moneda(<<1, 96>>)>> >>,
      <<headers, fila_datos \o <<Titulo(0)>> >> }

Init ==
    /\ pc = "boot"
    /\ entorno = [cred |-> "", fallo |-> "", modelo |-> "", scaler |-> "",
                  existia |-> FALSE]
    /\ gc = FALSE
    /\ sheet = FALSE
    /\ SHEET_URL = "sin asignar"
    /\ modelo = FALSE
    /\ scaler = FALSE
    /\ remota \in {[existe |-> FALSE, filas |-> << >>]}
                    \cup {[existe |-> TRUE, filas |-> f] : f \in FilasExistentes}
    /\ reloj = 0
    /\ ret = SinRet
    /\ prev = SinPrev
    /\ escrita = FALSE
    /\ hilo = [w \in Hilos |-> SinHilo]
    /\ ultimo = 0

\* Lines 44-86, run once when the module is imported.
Arranque ==
    /\ pc = "boot"
    /\ \E cred \in Credenciales, falla \in Fallas, am \in Archivos, as \in Archivos :
         LET g == setup_google_sheets(cred)
             en == Enlace(g, falla, remota)
             ca == Carga(am, as)
         IN  /\ gc' = g
             /\ remota' = en.remota
             /\ sheet' = en.sheet
             /\ SHEET_URL' = en.url
             /\ modelo' = (~en.abortado /\ ca.modelo)
             /\ scaler' = (~en.abortado /\ ca.scaler)
             /\ pc' = IF en.abortado \/ ca.abortado THEN "aborted" ELSE "serving"
             /\ entorno' = [cred |-> cred, fallo |-> en.fallo,
                            modelo |-> IF en.abortado THEN "" ELSE am,
                            scaler |-> IF en.abortado THEN "" ELSE as,
                            existia |-> remota.existe]
    /\ UNCHANGED <<reloj, ret, prev, escrita, hilo, ultimo>>

\* ----------------------------------------------------------------- messages
MsgSinModelos == "Error: Modelos ML no estan disponibles"
MsgValoresValidos == "Por favor ingrese valores validos (no todos pueden ser 0)"
MsgPrediccion == "PREDICCION COMPLETADA"
MsgNoConfigurado == "Google Sheets no configurado"
MsgGuardado == "Datos guardados en Google Sheets"
MsgErrorGuardando == "Error guardando en Sheets"
MsgLimpiado == "Datos limpiados correctamente en Google Sheets"
MsgErrorLimpiando == "Error limpiando datos"
MsgDatosActuales == "DATOS ACTUALES EN GOOGLE SHEETS"
MsgNoHayDatos == "No hay datos en Google Sheets aun"
MsgErrorLeyendo == "Error leyendo datos"

\* ----------------------------------------------------------------- handlers
\* A row with the two growth columns exchanged.
fila_actualizada_cruzada(timestamp, e, ingreso) ==
    <<Ts(timestamp)>>
        \o [i \in Campos |-> Num(e[IF i = 7 THEN 8 ELSE IF i = 8 THEN 7 ELSE i])]
        \o <<Moneda(FormatoMoneda(ingreso))>>

\* fila_actualizada of predecir_y_guardar_sheets.
fila_actualizada(timestamp, e, ingreso) ==
    <<Ts(timestamp)>> \o [i \in Campos |-> Num(e[i])]
        \o <<Moneda(FormatoMoneda(ingreso))>>

\* A cleared row one zero short.
fila_limpia_corta(timestamp) ==
    <<Ts(timestamp)>> \o [i \in 1..9 |-> Num(0)] \o <<Vacia>>

\* fila_limpia of limpiar_datos.
fila_limpia(timestamp) == <<Ts(timestamp)>> \o [i \in Campos |-> Num(0)] \o <<Vacia>>

\* The guards without the all-zero validation.
Rechazo_sin_validacion(e) == IF ~modelo \/ ~scaler THEN MsgSinModelos ELSE ""

\* The guards of predecir_y_guardar_sheets before any computation: the
\* message of the early return, or "" when the prediction goes on.
Rechazo(e) ==
    IF ~modelo \/ ~scaler THEN MsgSinModelos
    ELSE IF TodosCero(e) THEN MsgValoresValidos
    ELSE ""

\* A failed update that reaches the outer handler instead.
FalloGuardado_propagado(base) ==
    [base EXCEPT !.msg = "Error en prediccion", !.ingreso = << >>, !.llamadas = 1]

\* The inner `except Exception` of predecir_y_guardar_sheets: the failed
\* update becomes the save status of the message.
FalloGuardado(base) == [base EXCEPT !.estado = MsgErrorGuardando, !.llamadas = 1]

\* predecir_y_guardar_sheets called at instant t; ok says whether the update
\* call, if made, succeeds.
Predecir(e, t, ok, filas) ==
    IF Rechazo(e) # "" THEN
        [ret |-> [SinRet EXCEPT !.op = "predecir", !.msg = Rechazo(e), !.entradas = e],
         filas |-> filas, escribio |-> FALSE]
    ELSE
        LET ingreso == ingreso_estimado(e)
            timestamp == strftime(t)
            base == [SinRet EXCEPT !.op = "predecir", !.msg = MsgPrediccion,
                                   !.entradas = e, !.timestamp = timestamp,
                                   !.ingreso = FormatoMoneda(ingreso)]
        IN  IF sheet THEN
                IF ok THEN
                    [ret |-> [base EXCEPT !.estado = MsgGuardado, !.llamadas = 1],
                     filas |-> update_A2L2(filas, fila_actualizada(timestamp, e, ingreso)),
                     escribio |-> TRUE]
                ELSE
                    [ret |-> FalloGuardado(base), filas |-> filas, escribio |-> FALSE]
            ELSE
                [ret |-> [base EXCEPT !.estado = MsgNoConfigurado],
                 filas |-> filas, escribio |-> FALSE]

Limpiar(t, ok, filas) ==
    IF ~sheet THEN
        [ret |-> [SinRet EXCEPT !.op = "limpiar", !.msg = MsgNoConfigurado],
         filas |-> filas, escribio |-> FALSE]
    ELSE IF ok THEN
        [ret |-> [SinRet EXCEPT !.op = "limpiar", !.msg = MsgLimpiado,
                                !.timestamp = strftime(t), !.llamadas = 1],
         filas |-> update_A2L2(filas, fila_limpia(strftime(t))),
         escribio |-> TRUE]
    ELSE
        [ret |-> [SinRet EXCEPT !.op = "limpiar", !.msg = MsgErrorLimpiando,
                                !.timestamp = strftime(t), !.llamadas = 1],
         filas |-> filas, escribio |-> FALSE]

\* A test that lets a row of eleven values through.
HayDatos_once(valores) == Len(valores) >= 11

\* The test of mostrar_datos_actuales that the row can be rendered.
HayDatos(valores) == Len(valores) >= 12

\* The indices valores[0] .. valores[11] the rendering reads.
IndicesLeidos == 0..11

Mostrar(ok, filas) ==
    IF ~sheet THEN [SinRet EXCEPT !.op = "mostrar", !.msg = MsgNoConfigurado]
    ELSE IF ~ok THEN
        [SinRet EXCEPT !.op = "mostrar", !.msg = MsgErrorLeyendo, !.llamadas = 1]
    ELSE
        LET valores == row_values(filas, 2)
            base == [SinRet EXCEPT !.op = "mostrar", !.llamadas = 1, !.valores = valores,
                                   !.estado = "leida"]
        IN  IF HayDatos(valores) THEN
                \* an index past the list raises IndexError, caught by the handler
                IF \E i \in IndicesLeidos : i >= Len(valores)
                THEN [base EXCEPT !.msg = MsgErrorLeyendo,
                                  !.maxIdx = CHOOSE i \in IndicesLeidos :
                                      /\ i >= Len(valores)
                                      /\ \A j \in IndicesLeidos : j >= Len(valores) => i <= j]
                ELSE [base EXCEPT !.msg = MsgDatosActuales, !.maxIdx = 11]
            ELSE [base EXCEPT !.msg = MsgNoHayDatos]

Paso(r) ==
    /\ ret' = [r.ret EXCEPT !.cambio = (r.filas # remota.filas)]
    /\ remota' = [remota EXCEPT !.filas = r.filas]
    /\ escrita' = (escrita \/ r.escribio)
    /\ prev' = [op |-> ret.op, msg |-> ret.msg]
    /\ UNCHANGED <<pc, entorno, gc, sheet, SHEET_URL, modelo, scaler, hilo, ultimo>>

predecir_y_guardar_sheets ==
    /\ pc = "serving"
    /\ \E e \in Entradas, d \in 0..1, ok \in BOOLEAN :
         /\ reloj + d <= MaxReloj
         /\ reloj' = reloj + d
         /\ Paso(Predecir(e, reloj + d, ok, remota.filas))

limpiar_datos ==
    /\ pc = "serving"
    /\ \E d \in 0..1, ok \in BOOLEAN :
         /\ reloj + d <= MaxReloj
         /\ reloj' = reloj + d
         /\ Paso(Limpiar(reloj + d, ok, remota.filas))

mostrar_datos_actuales ==
    /\ pc = "serving"
    /\ \E d \in 0..1, ok \in BOOLEAN :
         /\ reloj + d <= MaxReloj
         /\ reloj' = reloj + d
         /\ Paso([ret |-> Mostrar(ok, remota.filas), filas |-> remota.filas,
                  escribio |-> FALSE])

Next ==
    \/ Arranque
    \/ predecir_y_guardar_sheets
    \/ limpiar_datos
    \/ mostrar_datos_actuales

Spec == Init /\ [][Next]_vars

\* ------------------------------------------------ two requests at the same time
\* Handlers run on worker threads: between the timestamp of a request and its
\* update call, the clock and the other request can move.
Tic ==
    /\ pc = "serving"
    /\ reloj < MaxReloj
    /\ reloj' = reloj + 1
    /\ UNCHANGED <<pc, entorno, gc, sheet, SHEET_URL, modelo, scaler, remota,
                   ret, prev, escrita, hilo, ultimo>>

\* predecir_y_guardar_sheets up to the update call (lines 111-160).
PredecirInicio(w) ==
    /\ pc = "serving"
    /\ hilo[w].pc = "idle"
    /\ \E e \in Entradas :
         hilo' = [hilo EXCEPT ![w] =
            IF Rechazo(e) # "" THEN
                [SinHilo EXCEPT !.pc = "fin", !.op = "predecir", !.msg = Rechazo(e)]
            ELSE IF sheet THEN
                [SinHilo EXCEPT !.pc = "update", !.op = "predecir", !.msg = MsgPrediccion,
                    !.fila = fila_actualizada(strftime(reloj), e, ingreso_estimado(e))]
            ELSE
                [SinHilo EXCEPT !.pc = "fin", !.op = "predecir", !.msg = MsgPrediccion,
                    !.estado = MsgNoConfigurado]]
    /\ UNCHANGED <<pc, entorno, gc, sheet, SHEET_URL, modelo, scaler, remota, reloj,
                   ret, prev, escrita, ultimo>>

\* limpiar_datos up to the update call (lines 200-205).
LimpiarInicio(w) ==
    /\ pc = "serving"
    /\ hilo[w].pc = "idle"
    /\ hilo' = [hilo EXCEPT ![w] =
            IF ~sheet THEN
                [SinHilo EXCEPT !.pc = "fin", !.op = "limpiar", !.msg = MsgNoConfigurado]
            ELSE
                [SinHilo EXCEPT !.pc = "update", !.op = "limpiar",
                    !.fila = fila_limpia(strftime(reloj))]]
    /\ UNCHANGED <<pc, entorno, gc, sheet, SHEET_URL, modelo, scaler, remota, reloj,
                   ret, prev, escrita, ultimo>>

\* The sheet.update('A2:L2', ...) call of either handler, and its return.
Actualizar(w) ==
    /\ hilo[w].pc = "update"
    /\ \E ok \in BOOLEAN :
         IF ok THEN
             /\ remota' = [remota EXCEPT !.filas = update_A2L2(remota.filas, hilo[w].fila)]
             /\ ultimo' = w
             /\ escrita' = TRUE
             /\ hilo' = [hilo EXCEPT ![w].pc = "fin",
                            ![w].estado = MsgGuardado,
                            ![w].msg = IF hilo[w].op = "limpiar" THEN MsgLimpiado
                                       ELSE hilo[w].msg]
         ELSE
             /\ hilo' = [hilo EXCEPT ![w].pc = "fin",
                            ![w].estado = MsgErrorGuardando,
                            ![w].msg = IF hilo[w].op = "limpiar" THEN MsgErrorLimpiando
                                       ELSE hilo[w].msg]
             /\ UNCHANGED <<remota, ultimo, escrita>>
    /\ UNCHANGED <<pc, entorno, gc, sheet, SHEET_URL, modelo, scaler, reloj, ret, prev>>

NextConc ==
    \/ Arranque
    \/ Tic
    \/ \E w \in Hilos : PredecirInicio(w)
    \/ \E w \in Hilos : LimpiarInicio(w)
    \/ \E w \in Hilos : Actualizar(w)

SpecConc == Init /\ [][NextConc]_vars

\* ================================================================== claims
\* Row 2 of the remote spreadsheet (<< >> when absent) and its cells A2..L2.
Fila2 == IF Len(remota.filas) >= 2 THEN remota.filas[2] ELSE << >>

A2L2 == SubSeq(Fila2, 1, IF Len(Fila2) < NCols THEN Len(Fila2) ELSE NCols)

EsTimestamp(c) == c.k = "ts" /\ Len(c.v) = 1
EsNumero(c) == c.k = "num" /\ Len(c.v) = 1
EsMoneda(c) == c.k = "moneda" /\ Len(c.v) >= 1 /\ \A i \in 2..Len(c.v) : c.v[i] \in 0..999

\* The 12-cell shape of a prediction record.
BienFormada(f) ==
    /\ Len(f) = NCols
    /\ (EsTimestamp(f[1]) \/ f[1] = Vacia)
    /\ \A i \in Campos : EsNumero(f[i + 1])
    /\ (EsMoneda(f[NCols]) \/ f[NCols] = Vacia)

PredijoNoCero == ret.op = "predecir" /\ \E i \in Campos : ret.entradas[i] # 0
PredijoCero == ret.op = "predecir" /\ \A i \in Campos : ret.entradas[i] = 0

\* The row the claim describes for the latest call: the timestamp of the
\* call's instant, the ten inputs in the order of the signature, the estimate.
FilaDescrita ==
    /\ Len(A2L2) = NCols
    /\ A2L2[1] = Ts(<<reloj \div TicksPorSegundo>>)
    /\ \A i \in Campos : A2L2[i + 1] = Num(ret.entradas[i])
    /\ A2L2[NCols] =
         Moneda(Miles(Redondear(expm1(modelo_predict(scaler_transform(ret.entradas))))))

\* C1 as stated: with the models loaded and the spreadsheet enabled, after a
\* Predict with a non-zero input returns, A2:L2 is the row of that call.
C1_FilaTrasPredecir ==
    (pc = "serving" /\ modelo /\ scaler /\ sheet /\ PredijoNoCero) => FilaDescrita

\* C1 amended: when the Predict returns the completed message with the saved
\* status, A2:L2 is the row of that call; with any other outcome the call
\* left the rows as they were.
C1_FilaTrasPredecirGuardada ==
    /\ (PredijoNoCero /\ ret.msg = MsgPrediccion /\ ret.estado = MsgGuardado)
          => FilaDescrita
    /\ (PredijoNoCero /\ ret.estado # MsgGuardado) => ~ret.cambio

C1_Testigo ==
    /\ PredijoNoCero
    /\ ret.estado = MsgGuardado
    /\ ret.entradas[1] # ret.entradas[2]
    /\ Len(Fila2) = NCols
    /\ Len(Fila2[NCols].v) >= 2
    /\ reloj > 0

\* C2 as stated: an all-zero Predict returns the "valid values" warning and
\* writes nothing, whatever the startup configuration.
C2_CeroAvisaSiempre ==
    PredijoCero => (ret.msg = MsgValoresValidos /\ ret.llamadas = 0 /\ ~ret.cambio)

\* C2 amended: an all-zero Predict never calls the spreadsheet nor changes a
\* row; it returns the "valid values" warning when both artifacts are loaded
\* and the "models not available" message when they are not.
C2_CeroNoEscribe ==
    PredijoCero =>
        /\ ret.llamadas = 0
        /\ ~ret.cambio
        /\ ret.msg = (IF modelo /\ scaler THEN MsgValoresValidos ELSE MsgSinModelos)

C2_Testigo ==
    /\ PredijoCero
    /\ modelo /\ scaler /\ sheet
    /\ ret.msg = MsgValoresValidos
    /\ prev.op = "predecir"

\* What Show renders for a cleared row: the ten zeros and an empty estimate.
MuestraFilaLimpia ==
    /\ ret.msg = MsgDatosActuales
    /\ Len(ret.valores) >= NCols
    /\ \A i \in Campos : ret.valores[i + 1] = [k |-> "numtxt", v |-> <<0>>]
    /\ ret.valores[NCols] = Vacia

\* C3: a successful Clear directly followed by a Show whose read succeeds
\* yields the display of ten zeros and an empty estimate.
C3_LimpiarLuegoMostrar ==
    (/\ pc = "serving" /\ sheet
     /\ prev.op = "limpiar" /\ prev.msg = MsgLimpiado
     /\ ret.op = "mostrar" /\ ret.estado = "leida")
        => MuestraFilaLimpia

\* C4 as stated: once the spreadsheet is bound, created or opened, row 2 is
\* a well-formed record of exactly 12 cells.
C4_FilaSiempreBienFormada ==
    (pc = "serving" /\ sheet) => BienFormada(Fila2)

\* C4 amended: row 2 is a well-formed record of exactly 12 cells whenever the
\* spreadsheet was created at this startup; in an opened spreadsheet A2:L2 is
\* a well-formed record once an update of this process has been applied.
C4_FilaBienFormadaTrasEscribir ==
    /\ (pc = "serving" /\ sheet /\ ~entorno.existia) => BienFormada(Fila2)
    /\ (pc = "serving" /\ sheet /\ escrita) => BienFormada(A2L2)

C4_Testigo ==
    /\ pc = "serving" /\ sheet
    /\ entorno.existia
    /\ escrita
    /\ ret.op = "limpiar"
    /\ prev.op = "predecir"

\* C5: when a model file was missing at startup both artifacts stay
\* unavailable, and every Predict returns "models not available" without a
\* spreadsheet call or a change of row 2.
C5_SinModelosParaSiempre ==
    (pc = "serving" /\ (entorno.modelo = "falta" \/ entorno.scaler = "falta")) =>
        /\ ~modelo
        /\ ~scaler
        /\ ret.op = "predecir" =>
              (ret.msg = MsgSinModelos /\ ret.llamadas = 0 /\ ~ret.cambio)

C5_Testigo ==
    /\ pc = "serving"
    /\ entorno.modelo = "ok" /\ entorno.scaler = "falta"
    /\ sheet
    /\ PredijoNoCero
    /\ prev.op = "limpiar" /\ prev.msg = MsgLimpiado

\* C6: without a usable credential variable the sheet handle stays disabled;
\* Clear and Show return "not configured", a Predict with models and a
\* non-zero input returns the estimate with the "not configured" status, and
\* none of them calls the spreadsheet.
C6_SinCredenciales ==
    (pc = "serving" /\ entorno.cred # "valida") =>
        /\ ~gc
        /\ ~sheet
        /\ SHEET_URL = "No configurado"
        /\ ret.llamadas = 0
        /\ ~ret.cambio
        /\ ret.op \in {"limpiar", "mostrar"} => ret.msg = MsgNoConfigurado
        /\ (PredijoNoCero /\ modelo /\ scaler) =>
              /\ ret.msg = MsgPrediccion
              /\ ret.estado = MsgNoConfigurado
              /\ ret.ingreso =
                   Miles(Redondear(expm1(modelo_predict(scaler_transform(ret.entradas)))))

C6_Testigo ==
    /\ pc = "serving"
    /\ entorno.cred = "incompleta"
    /\ PredijoNoCero /\ modelo /\ scaler
    /\ ret.estado = MsgNoConfigurado
    /\ prev.op = "mostrar" /\ prev.msg = MsgNoConfigurado

\* C7: with a client handle, a failure while opening or creating the
\* spreadsheet leaves the process serving with the spreadsheet disabled.
C7_FalloDeEnlaceDegrada ==
    (pc # "boot" /\ gc /\ entorno.fallo # "ninguna") =>
        (pc = "serving" /\ ~sheet /\ SHEET_URL = "No configurado")

\* C8: a Predict with models, a non-zero input and the spreadsheet enabled
\* whose update call fails still returns the completed message with the
\* estimate, the failure being its save status, and the process keeps serving.
C8_FalloAlGuardarNoFalla ==
    (/\ modelo /\ scaler /\ sheet
     /\ PredijoNoCero
     /\ ret.estado # MsgGuardado) =>
        /\ pc = "serving"
        /\ ret.msg = MsgPrediccion
        /\ ret.estado = MsgErrorGuardando
        /\ ret.ingreso =
             Miles(Redondear(expm1(modelo_predict(scaler_transform(ret.entradas)))))
        /\ ~ret.cambio

C8_Testigo ==
    /\ modelo /\ scaler /\ sheet
    /\ PredijoNoCero
    /\ ret.estado = MsgErrorGuardando
    /\ prev.op = "predecir" /\ prev.msg = MsgPrediccion
    /\ escrita

\* C9: with the spreadsheet enabled, a Show of a row 2 that is absent or has
\* fewer than 12 cells returns "no data" and reads no index of the returned
\* list; a failed read is returned as the error message.
C9_MostrarFilaCorta ==
    (pc = "serving" /\ sheet /\ ret.op = "mostrar") =>
        /\ ret.estado # "leida" => ret.msg = MsgErrorLeyendo
        /\ (ret.estado = "leida" /\ Len(Fila2) < NCols) =>
              (ret.msg = MsgNoHayDatos /\ ret.maxIdx = -1)
        /\ (ret.estado = "leida" /\ Len(ret.valores) < NCols) =>
              (ret.msg = MsgNoHayDatos /\ ret.maxIdx = -1)
        /\ ret.maxIdx < Len(ret.valores)

C9_Testigo ==
    /\ pc = "serving" /\ sheet
    /\ ret.op = "mostrar" /\ ret.estado = "leida"
    /\ Len(Fila2) \in 1..(NCols - 1)
    /\ ret.msg = MsgNoHayDatos

\* C10: with two concurrent writers, A2:L2 is at every moment the whole row
\* of the request whose update was applied last, which no update before it
\* and no request still pending has a cell in.
C10_UltimoEscritorGana ==
    (pc = "serving" /\ ultimo # 0) =>
        /\ hilo[ultimo].pc = "fin"
        /\ A2L2 = hilo[ultimo].fila
        /\ BienFormada(A2L2)

\* Both requests wrote, and the row that stays carries the earlier timestamp.
C10_Testigo ==
    /\ ultimo # 0
    /\ \A w \in Hilos : hilo[w].pc = "fin" /\ hilo[w].estado = MsgGuardado
    /\ \E w \in Hilos \ {ultimo} :
          /\ hilo[w].op = "predecir"
          /\ hilo[ultimo].fila[1].v[1] < hilo[w].fila[1].v[1]
          /\ hilo[ultimo].fila # hilo[w].fila

====
